---------------------------- MODULE Spec2Model ----------------------------
(***************************************************************************)
(* VoiceForge Studio: the data-URI codec and the two endpoints of the      *)
(* Python service (PYTHON_BACKEND_GUIDE.md), the three server flows        *)
(* (voice-generation, voice-customization, voice-model-training), and the  *)
(* client components that hold the voice list (page.tsx), the trainer form *)
(* (voice-trainer.tsx) and the generator form (tts-generator.tsx).         *)
(*                                                                         *)
(* Strings are sequences of one-character strings, so that splitting,      *)
(* prefix tests and base64 are computed and not assumed.                   *)
(***************************************************************************)
EXTENDS Integers, Sequences, FiniteSets, TLC

(***************************************************************************)
(* Bounds of the model.                                                    *)
(***************************************************************************)
MaxBytesLen == 3
MaxMimeLen == 2
MaxPayloadLen == 3
MaxTrainings == 2
MaxCacheLen == 2
MaxNameLen == 3

(***************************************************************************)
(* Strings.                                                                *)
(***************************************************************************)
RECURSIVE IndexOf(_, _, _)
\* str.find(c) from position i (1-based); 0 when c does not occur.
IndexOf(s, c, i) ==
  IF i > Len(s) THEN 0
  ELSE IF s[i] = c THEN i
  ELSE IndexOf(s, c, i + 1)

Contains(s, c) == IndexOf(s, c, 1) # 0

\* s.split(c)[0]: the text before the first c, or all of s.
BeforeFirst(s, c) ==
  IF Contains(s, c) THEN SubSeq(s, 1, IndexOf(s, c, 1) - 1) ELSE s

\* the text after the first c (s has one).
AfterFirst(s, c) == SubSeq(s, IndexOf(s, c, 1) + 1, Len(s))

\* s.startswith(p)
StartsWith(s, p) == Len(s) >= Len(p) /\ SubSeq(s, 1, Len(p)) = p

SeqsUpTo(S, n) == UNION {[1..k -> S] : k \in 0..n}

DataColon == <<"d", "a", "t", "a", ":">>
Base64Comma == <<";", "b", "a", "s", "e", "6", "4", ",">>
AudioSlash == <<"a", "u", "d", "i", "o", "/">>

(***************************************************************************)
(* base64 (Python's base64 module, as decode_data_uri and                  *)
(* encode_audio_to_data_uri call it).                                      *)
(***************************************************************************)
B64Alphabet ==
  <<"A", "B", "C", "D", "E", "F", "G", "H", "I", "J", "K", "L", "M",
    "N", "O", "P", "Q", "R", "S", "T", "U", "V", "W", "X", "Y", "Z",
    "a", "b", "c", "d", "e", "f", "g", "h", "i", "j", "k", "l", "m",
    "n", "o", "p", "q", "r", "s", "t", "u", "v", "w", "x", "y", "z",
    "0", "1", "2", "3", "4", "5", "6", "7", "8", "9", "+", "/">>

B64Chars == {B64Alphabet[i] : i \in 1..64}

B64Char(v) == B64Alphabet[v + 1]

B64Value(c) == (CHOOSE i \in 1..64 : B64Alphabet[i] = c) - 1

RECURSIVE b64encode(_)
\* base64.b64encode: three bytes to four characters, '=' padding.
b64encode(b) ==
  IF Len(b) = 0 THEN <<>>
  ELSE IF Len(b) = 1 THEN
    <<B64Char(b[1] \div 4), B64Char((b[1] % 4) * 16), "=", "=">>
  ELSE IF Len(b) = 2 THEN
    <<B64Char(b[1] \div 4), B64Char((b[1] % 4) * 16 + b[2] \div 16),
      B64Char((b[2] % 16) * 4), "=">>
  ELSE
    <<B64Char(b[1] \div 4), B64Char((b[1] % 4) * 16 + b[2] \div 16),
      B64Char((b[2] % 16) * 4 + b[3] \div 64), B64Char(b[3] % 64)>>
    \o b64encode(SubSeq(b, 4, Len(b)))

B64Error == [ok |-> FALSE, data |-> <<>>]

RECURSIVE a2b_base64(_, _, _, _, _, _)
\* binascii.a2b_base64 without validation, which base64.b64decode(s) calls:
\* characters outside the alphabet are discarded, a complete pad sequence ends
\* the input, and an incomplete last quad is binascii.Error.
a2b_base64(s, i, quad_pos, leftchar, pads, out) ==
  IF i > Len(s) THEN
    IF quad_pos # 0 THEN B64Error ELSE [ok |-> TRUE, data |-> out]
  ELSE IF s[i] = "=" THEN
    IF quad_pos >= 2 /\ quad_pos + pads + 1 >= 4
    THEN [ok |-> TRUE, data |-> out]
    ELSE a2b_base64(s, i + 1, quad_pos, leftchar,
                    IF quad_pos >= 2 THEN pads + 1 ELSE pads, out)
  ELSE IF s[i] \notin B64Chars THEN
    a2b_base64(s, i + 1, quad_pos, leftchar, pads, out)
  ELSE
    LET v == B64Value(s[i]) IN
    CASE quad_pos = 0 -> a2b_base64(s, i + 1, 1, v, 0, out)
      [] quad_pos = 1 ->
           a2b_base64(s, i + 1, 2, v % 16, 0,
                      Append(out, leftchar * 4 + v \div 16))
      [] quad_pos = 2 ->
           a2b_base64(s, i + 1, 3, v % 4, 0,
                      Append(out, leftchar * 16 + v \div 4))
      [] OTHER ->
           a2b_base64(s, i + 1, 0, 0, 0, Append(out, leftchar * 64 + v))

b64decode(s) == a2b_base64(s, 1, 0, 0, 0, <<>>)

(***************************************************************************)
(* The data-URI codec.                                                     *)
(***************************************************************************)
\* encode_audio_to_data_uri(audio_bytes, mime_type)
encode_audio_to_data_uri(audio_bytes, mime_type) ==
  DataColon \o mime_type \o Base64Comma \o b64encode(audio_bytes)

DecodeError == [ok |-> FALSE, data |-> <<>>, mime |-> <<>>]

\* The mutant: the scheme, not the MIME type, is taken from the header.
decode_data_uri_scheme(data_uri) ==
  IF ~Contains(data_uri, ",") THEN DecodeError
  ELSE
    LET header == BeforeFirst(data_uri, ",")
        encoded == AfterFirst(data_uri, ",")
        first == BeforeFirst(header, ";")
        dec == b64decode(encoded)
    IN IF ~Contains(first, ":") THEN DecodeError
       ELSE IF ~dec.ok THEN DecodeError
       ELSE [ok |-> TRUE, data |-> dec.data, mime |-> BeforeFirst(first, ":")]

\* decode_data_uri(data_uri): (data, mime_type), or ValueError for any
\* exception raised on the way.
decode_data_uri(data_uri) ==
  IF ~Contains(data_uri, ",") THEN DecodeError
  ELSE
    LET header == BeforeFirst(data_uri, ",")
        encoded == AfterFirst(data_uri, ",")
        first == BeforeFirst(header, ";")
        dec == b64decode(encoded)
    IN IF ~Contains(first, ":") THEN DecodeError
       ELSE IF ~dec.ok THEN DecodeError
       ELSE [ok |-> TRUE, data |-> dec.data,
             mime |-> BeforeFirst(AfterFirst(first, ":"), ":")]

(***************************************************************************)
(* The codec's inputs.                                                     *)
(***************************************************************************)
ByteVals == {0, 77, 255}
ByteSeqs == SeqsUpTo(ByteVals, MaxBytesLen)
MimeChars == {"a", "/", ";", ",", ":"}
MimeStrings == SeqsUpTo(MimeChars, MaxMimeLen)
PayloadChars == {"Q", "=", "!"}

\* Strings handed to decode_data_uri: a scheme, a MIME segment, a marker and
\* a payload, each of them well-formed or not.
RawUris ==
  {p \o m \o k \o q :
     p \in {DataColon, <<"x", ":">>, <<>>},
     m \in {<<>>, <<"a", "/", "b">>},
     k \in {Base64Comma, <<",">>, <<";">>},
     q \in SeqsUpTo(PayloadChars, MaxPayloadLen) \cup {<<"Q", "Q", "=", "=">>}}


(***************************************************************************)
(* Values shared by the client and the service.                            *)
(***************************************************************************)
\* null and undefined: no string of characters equals it.
Null == <<"null">>

\* JavaScript truthiness of a string-or-null.
Truthy(x) == x # Null /\ x # <<>>

Sessions == {"s1", "s2"}

HexSuffixes == {<<"0", "0", "0", "0", "0", "0">>, <<"a", "1", "b", "2", "c", "3">>}

AlnumChars == B64Chars \ {"+", "/"}

DefaultDash == <<"d", "e", "f", "a", "u", "l", "t", "-">>
DefaultMaleId == DefaultDash \o <<"m", "a", "l", "e">>
DefaultFemaleId == DefaultDash \o <<"f", "e", "m", "a", "l", "e">>

\* page.tsx: initialVoices (the names stand for the two Russian labels).
initialVoices ==
  << [id |-> DefaultMaleId, name |-> <<"S", "t", "d", " ", "M">>],
     [id |-> DefaultFemaleId, name |-> <<"S", "t", "d", " ", "F">>] >>

Ids(list) == {list[i].id : i \in 1..Len(list)}

RECURSIVE FilterNotInitial(_)
\* list.filter(v => !initialVoices.some(iv => iv.id === v.id))
FilterNotInitial(list) ==
  IF Len(list) = 0 THEN <<>>
  ELSE (IF list[1].id \in Ids(initialVoices) THEN <<>> ELSE <<list[1]>>)
       \o FilterNotInitial(Tail(list))

NoItem == [present |-> FALSE, value |-> <<>>]

\* The mutant: the cached entries are appended as they are.
VoicesInitializerUnfiltered(item) ==
  IF item.present
  THEN initialVoices \o item.value
  ELSE initialVoices

\* page.tsx: the useState initializer of voices. The item is the array that
\* the persistence effect wrote (JSON.stringify, then JSON.parse, of an array
\* of {id, name} objects gives the array back).
VoicesInitializer(item) ==
  IF item.present
  THEN initialVoices \o FilterNotInitial(item.value)
  ELSE initialVoices

\* page.tsx: the effect on [voices]: only the user-trained voices are saved.
PersistenceEffect(list) == [present |-> TRUE, value |-> FilterNotInitial(list)]

\* The mutant: the duplicate check is left out.
addVoiceUnchecked(prevVoices, newVoice) == Append(prevVoices, newVoice)

\* page.tsx: addVoice, the updater handed to setVoices.
addVoice(prevVoices, newVoice) ==
  IF newVoice.id \in Ids(prevVoices) THEN prevVoices
  ELSE Append(prevVoices, newVoice)

(***************************************************************************)
(* voice-trainer.tsx: the files a user can pick.                           *)
(***************************************************************************)
FiveMB == 5 * 1024 * 1024

AudioWav == AudioSlash \o <<"w", "a", "v">>
AudioMpeg == AudioSlash \o <<"m", "p", "e", "g">>
AudioMp3 == AudioSlash \o <<"m", "p", "3">>
AudioOgg == AudioSlash \o <<"o", "g", "g">>
TextPlain == <<"t", "e", "x", "t", "/", "p", "l", "a", "i", "n">>

AllowedTypes == {AudioWav, AudioMpeg, AudioMp3}

NullFile == [name |-> "null", type |-> <<>>, size |-> 0, data |-> <<>>]

\* size is File.size; data stands for the content (the content of the file
\* that is too big is never read).
WavFile == [name |-> "a.wav", type |-> AudioWav, size |-> 1024, data |-> <<77>>]
Mp3File == [name |-> "b.mp3", type |-> AudioMpeg, size |-> 2048, data |-> <<0, 255>>]
BigFile == [name |-> "big.wav", type |-> AudioWav, size |-> FiveMB + 1, data |-> <<0>>]
TextFile == [name |-> "c.txt", type |-> TextPlain, size |-> 10, data |-> <<77>>]

Files == {WavFile, Mp3File, BigFile, TextFile}

\* FileReader.readAsDataURL(file): the result handed to reader.onload.
readAsDataURL(file) == DataColon \o file.type \o Base64Comma \o b64encode(file.data)

RECURSIVE LStrip(_)
LStrip(s) == IF Len(s) > 0 /\ s[1] = " " THEN LStrip(Tail(s)) ELSE s

RECURSIVE RStrip(_)
RStrip(s) ==
  IF Len(s) > 0 /\ s[Len(s)] = " " THEN RStrip(SubSeq(s, 1, Len(s) - 1)) ELSE s

\* str.strip() and String.prototype.trim() on strings whose only white space
\* is the space.
Strip(s) == RStrip(LStrip(s))

(***************************************************************************)
(* PYTHON_BACKEND_GUIDE.md: train_voice_endpoint.                          *)
(***************************************************************************)
Unnamed == <<"u", "n", "n", "a", "m", "e", "d", "_", "m", "o", "d", "e", "l">>

\* The mutant: the spaces are not replaced.
SaneModelNameSpaces(modelName) ==
  LET kept == [i \in 1..Len(modelName) |->
                 IF modelName[i] \in AlnumChars \cup {" ", "_", "-"}
                 THEN modelName[i] ELSE "_"]
      stripped == Strip(kept)
  IN IF stripped = <<>> THEN Unnamed ELSE stripped

\* sane_model_name: every character that is neither alphanumeric nor one of
\* ' ', '_', '-' becomes '_'; strip(); ' ' becomes '_'; "unnamed_model" when
\* nothing is left.
SaneModelName(modelName) ==
  LET kept == [i \in 1..Len(modelName) |->
                 IF modelName[i] \in AlnumChars \cup {" ", "_", "-"}
                 THEN modelName[i] ELSE "_"]
      stripped == Strip(kept)
      replaced == [i \in 1..Len(stripped) |->
                     IF stripped[i] = " " THEN "_" ELSE stripped[i]]
  IN IF replaced = <<>> THEN Unnamed ELSE replaced

\* model_id = f"{sane_model_name}_{uuid.uuid4().hex[:6]}"
ModelId(modelName, suffix) == SaneModelName(modelName) \o <<"_">> \o suffix

\* extension_map.get(mime_type.lower()), "wav" when the type is not in the map
\* (the types of the model are lower case).
FileExtension(mime_type) ==
  CASE mime_type = AudioWav -> "wav"
    [] mime_type \in {AudioMpeg, AudioMp3} -> "mp3"
    [] mime_type = AudioOgg -> "ogg"
    [] OTHER -> "wav"

NoResponse ==
  [kind |-> "none", status |-> 0, trainingStatus |-> "", modelId |-> Null,
   detail |-> ""]

HttpError(status, detail) ==
  [kind |-> "http", status |-> status, trainingStatus |-> "", modelId |-> Null,
   detail |-> detail]

\* The mutant: the id is left out of the response.
TrainVoiceResponseNoId(trainingStatus, modelId) ==
  [kind |-> "http", status |-> 200, trainingStatus |-> trainingStatus,
   modelId |-> Null, detail |-> ""]

\* class TrainVoiceResponse(BaseModel), sent with status 200.
TrainVoiceResponse(trainingStatus, modelId) ==
  [kind |-> "http", status |-> 200, trainingStatus |-> trainingStatus,
   modelId |-> modelId, detail |-> ""]

\* The files of MODEL_STORAGE_PATH/<id> after open(reference.<ext>, "wb") and
\* f.write(data): the file is created or overwritten, the others are kept.
WriteFile(fs, id, ext, data) ==
  {f \in fs : ~(f.id = id /\ f.ext = ext)}
    \cup {[id |-> id, ext |-> ext, data |-> data]}

\* shutil.rmtree(model_output_path)
RmTree(fs, id) == {f \in fs : f.id # id}

TrainFaults == {"none", "makedirs", "write", "write_rmtree"}

\* train_voice_endpoint(request) with the six hex digits uuid4 gave and the
\* I/O fault met, if any: the directories, the files and the response.
\* An HTTPException raised inside the try is caught by `except Exception`
\* and leaves as status 500.
train_voice_endpoint(ds, fs, request, suffix, fault) ==
  LET dec == decode_data_uri(request.audioDataUri)
      model_id == ModelId(request.modelName, suffix)
      ext == FileExtension(dec.mime)
  IN IF ~dec.ok
       THEN [dirs |-> ds, files |-> fs,
             resp |-> HttpError(400, "Invalid data URI format")]
     ELSE IF ~StartsWith(dec.mime, AudioSlash)
       THEN [dirs |-> ds, files |-> fs,
             resp |-> HttpError(500, "Invalid audio file type")]
     ELSE IF fault = "makedirs"
       \* os.makedirs raised: the directory exists only if it did before, and
       \* then the handler removes it.
       THEN [dirs |-> ds \ {model_id}, files |-> RmTree(fs, model_id),
             resp |-> HttpError(500, "Internal server error")]
     ELSE IF fault = "write"
       \* the write raised and the handler removed the directory.
       THEN [dirs |-> ds \ {model_id}, files |-> RmTree(fs, model_id),
             resp |-> HttpError(500, "Internal server error")]
     ELSE IF fault = "write_rmtree"
       \* the write raised and so did shutil.rmtree: the truncated file stays.
       THEN [dirs |-> ds \cup {model_id},
             files |-> WriteFile(fs, model_id, ext, <<>>),
             resp |-> HttpError(500, "Internal server error")]
     ELSE [dirs |-> ds \cup {model_id},
           files |-> WriteFile(fs, model_id, ext, dec.data),
           resp |-> TrainVoiceResponse("completed", model_id)]

(***************************************************************************)
(* voice-model-training.ts: trainVoiceModelFlow, from the response on.     *)
(***************************************************************************)
NoResult ==
  [threw |-> FALSE, status |-> 0, detail |-> "", trainingStatus |-> "",
   modelId |-> Null]

\* new Error(`Failed to ...: External ... failed with status ${status}:
\* ${errorBody}`): the status and the body the message carries (status 0: the
\* message of the error fetch rejected with).
Thrown(status, detail) ==
  [threw |-> TRUE, status |-> status, detail |-> detail, trainingStatus |-> "",
   modelId |-> Null]

\* fetch rejected, or !response.ok: an Error is thrown; else response.json().
trainVoiceModelFlow(resp) ==
  IF resp.kind = "neterr" THEN Thrown(0, "fetch failed")
  ELSE IF resp.status # 200 THEN Thrown(resp.status, resp.detail)
  ELSE [threw |-> FALSE, status |-> 0, detail |-> "",
        trainingStatus |-> resp.trainingStatus, modelId |-> resp.modelId]

NetworkError ==
  [kind |-> "neterr", status |-> 0, trainingStatus |-> "", modelId |-> Null,
   detail |-> "fetch failed"]

\* The description of a toast that quotes no error; a toast that shows
\* (error as Error).message holds the status and the body the message carries.
NoDetail == [status |-> 0, detail |-> ""]

IdleCall ==
  [phase |-> "idle", modelName |-> <<>>, audioDataUri |-> Null,
   resp |-> NoResponse, result |-> NoResult]

(***************************************************************************)
(* The synthesis requests: the two flows that POST /api/tts (the real-API  *)
(* voice-generation flow and voice-customization.ts) and the endpoint of   *)
(* PYTHON_BACKEND_GUIDE.md behind them.                                    *)
(***************************************************************************)
\* An optional number is the set of its values, {} when it is undefined.
\* speed and variability are counted in tenths (10 is 1.0).
Undefined == {}

Num(x) == {x}

\* z.number().min(lo).max(hi) and Field(ge=lo, le=hi) on an optional number.
InRange(o, lo, hi) == \A x \in o : lo <= x /\ x <= hi

\* .default(d) and Field(d, ...): the value when the number is missing.
WithDefault(o, d) == IF o = Undefined THEN Num(d) ELSE o

\* 'data:audio', the prefix the flows look for.
DataAudio == DataColon \o <<"a", "u", "d", "i", "o">>

SynthInput(text, voiceId, speed, variability) ==
  [text |-> text, voiceId |-> voiceId, speed |-> speed,
   variability |-> variability]

NoInput == SynthInput(<<>>, <<>>, Undefined, Undefined)

\* GenerateSpeechInputSchema: text and voiceId are strings, speed and
\* variability are optional numbers with no minimum and no maximum.
GenerateSpeechInputSchema(input) == [ok |-> TRUE, value |-> input]

\* CustomizeVoiceInputSchema: speed .min(0.5).max(2.0).default(1.0),
\* variability .min(0).max(1.0).default(0.5).
CustomizeVoiceInputSchema(input) ==
  IF InRange(input.speed, 5, 20) /\ InRange(input.variability, 0, 10)
  THEN [ok |-> TRUE,
        value |-> [input EXCEPT !.speed = WithDefault(@, 10),
                                !.variability = WithDefault(@, 5)]]
  ELSE [ok |-> FALSE, value |-> input]

Flows == {"generateSpeech", "customizeVoice"}

\* ai.defineFlow({inputSchema}): the input is parsed before the handler runs.
InputSchema(flow, input) ==
  IF flow = "generateSpeech" THEN GenerateSpeechInputSchema(input)
  ELSE CustomizeVoiceInputSchema(input)

\* class TTSRequest(BaseModel): JSON.stringify left the undefined numbers out
\* of the body, and the model gives them their defaults.
TTSRequest(body) ==
  IF InRange(body.speed, 5, 20) /\ InRange(body.variability, 0, 10)
  THEN [ok |-> TRUE,
        value |-> [body EXCEPT !.speed = WithDefault(@, 10),
                               !.variability = WithDefault(@, 5)]]
  ELSE [ok |-> FALSE, value |-> body]

NoTtsResponse ==
  [kind |-> "none", status |-> 0, detail |-> "", audioDataUri |-> Null]

TtsHttpError(status, detail) ==
  [kind |-> "http", status |-> status, detail |-> detail,
   audioDataUri |-> Null]

\* class TTSResponse(BaseModel), sent with status 200.
TTSResponse(audioDataUri) ==
  [kind |-> "http", status |-> 200, detail |-> "",
   audioDataUri |-> audioDataUri]

TtsNetworkError ==
  [kind |-> "neterr", status |-> 0, detail |-> "fetch failed",
   audioDataUri |-> Null]

\* for ext in ["wav", "mp3", "ogg"]: the first reference.<ext> that exists in
\* MODEL_STORAGE_PATH/<voiceId>; "none" is speaker_wav_for_tts = None.
SpeakerWav(fs, voiceId) ==
  LET exists(ext) == \E f \in fs : f.id = voiceId /\ f.ext = ext
  IN IF exists("wav") THEN "wav"
     ELSE IF exists("mp3") THEN "mp3"
     ELSE IF exists("ogg") THEN "ogg"
     ELSE "none"

\* What tts_instance.tts_to_file does: it raises, or it leaves bytes (none,
\* or some) in the buffer.
EngineOutcomes ==
  {[raised |-> FALSE, bytes |-> <<77>>],
   [raised |-> FALSE, bytes |-> <<>>],
   [raised |-> TRUE, bytes |-> <<>>]}

\* generate_tts_endpoint(request) for the body of a POST /api/tts, with
\* tts_instance loaded or not and the outcome of tts_to_file: the response,
\* whether tts_to_file was called, and the speaker_wav it was called with.
\* The body is validated against TTSRequest before the handler runs (422).
\* A voiceId with no reference audio only prints a warning. The HTTPException
\* raised for an empty buffer is caught by `except Exception` and leaves as
\* another 500.
generate_tts_endpoint(fs, body, loaded, outcome) ==
  LET request == TTSRequest(body)
      speaker_wav_for_tts ==
        IF StartsWith(body.voiceId, DefaultDash) THEN "none"
        ELSE SpeakerWav(fs, body.voiceId)
  IN IF ~request.ok
       THEN [resp |-> TtsHttpError(422, "validation error"),
             engine |-> FALSE, speaker |-> "none"]
     ELSE IF ~loaded
       THEN [resp |-> TtsHttpError(503, "TTS model is not available"),
             engine |-> FALSE, speaker |-> "none"]
     ELSE IF outcome.raised
       THEN [resp |-> TtsHttpError(500, "Internal server error"),
             engine |-> TRUE, speaker |-> speaker_wav_for_tts]
     ELSE IF outcome.bytes = <<>>
       THEN [resp |-> TtsHttpError(500, "Internal server error"),
             engine |-> TRUE, speaker |-> speaker_wav_for_tts]
     ELSE [resp |-> TTSResponse(
                      encode_audio_to_data_uri(outcome.bytes, AudioWav)),
           engine |-> TRUE, speaker |-> speaker_wav_for_tts]

SynthNoResult ==
  [threw |-> FALSE, kind |-> "", status |-> 0, detail |-> "",
   audioDataUri |-> Null]

\* new Error(...): what failed ("schema": the input did not parse; "fetch":
\* fetch rejected; "status": !response.ok; "invalid": the audioDataUri check)
\* and the status and the body that the message carries.
SynthThrown(kind, status, detail) ==
  [threw |-> TRUE, kind |-> kind, status |-> status, detail |-> detail,
   audioDataUri |-> Null]

\* The mutant: a non-success status is reported with a fixed message.
generateSpeechFlowGeneric(resp) ==
  IF resp.kind = "neterr" THEN SynthThrown("fetch", 0, resp.detail)
  ELSE IF resp.status # 200
    THEN SynthThrown("status", 0, "request failed")
  ELSE IF ~Truthy(resp.audioDataUri)
          \/ ~StartsWith(resp.audioDataUri, DataAudio)
    THEN SynthThrown("invalid", 0, "Invalid audioDataUri")
  ELSE [SynthNoResult EXCEPT !.audioDataUri = resp.audioDataUri]

\* generateSpeechFlow, from the response on.
generateSpeechFlow(resp) ==
  IF resp.kind = "neterr" THEN SynthThrown("fetch", 0, resp.detail)
  ELSE IF resp.status # 200
    THEN SynthThrown("status", resp.status, resp.detail)
  ELSE IF ~Truthy(resp.audioDataUri)
          \/ ~StartsWith(resp.audioDataUri, DataAudio)
    THEN SynthThrown("invalid", 0, "Invalid audioDataUri")
  ELSE [SynthNoResult EXCEPT !.audioDataUri = resp.audioDataUri]

\* customizeVoiceFlow, from the response on.
customizeVoiceFlow(resp) ==
  IF resp.kind = "neterr" THEN SynthThrown("fetch", 0, resp.detail)
  ELSE IF resp.status # 200
    THEN SynthThrown("status", resp.status, resp.detail)
  ELSE IF ~Truthy(resp.audioDataUri)
          \/ ~StartsWith(resp.audioDataUri, DataAudio)
    THEN SynthThrown("invalid", 0, "Invalid audioDataUri (customization)")
  ELSE [SynthNoResult EXCEPT !.audioDataUri = resp.audioDataUri]

SynthIdle ==
  [phase |-> "idle", flow |-> "", input |-> NoInput, body |-> NoInput,
   fetched |-> FALSE, engine |-> FALSE, speaker |-> "none",
   resp |-> NoTtsResponse, result |-> SynthNoResult]

\* A flow is called: the input is parsed, and the handler runs up to the
\* await of fetch, with JSON.stringify(input) as the body.
StartFlow(flow, input) ==
  LET parsed == InputSchema(flow, input)
  IN IF parsed.ok
     THEN [SynthIdle EXCEPT !.phase = "requested", !.flow = flow,
                            !.input = input, !.body = parsed.value,
                            !.fetched = TRUE]
     ELSE [SynthIdle EXCEPT !.phase = "returned", !.flow = flow,
                            !.input = input,
                            !.result = SynthThrown("schema", 0,
                                                   "Schema validation failed")]

\* The callers of the flows: the TtsGenerator of a page, and a caller that
\* invokes the exported server actions with an input of its own.
Direct == "direct"
Callers == Sessions \cup {Direct}

\* useEffect on [voices, selectedVoiceId] of TtsGenerator.
EnsureSelectedVoice(list, selected) ==
  IF Len(list) > 0 /\ selected \notin Ids(list) THEN list[1].id ELSE selected

VARIABLES
  cStep, cBytes, cMime, cUri, cRes,   \* the codec under test
  nStep, nName, sane_model_name,      \* the sanitizer under test
  localStorage,                       \* the item 'trainedVoices'
  mounted, voices,                    \* Home, per session
  modelName, audioFile, audioDataUri, \* VoiceTrainer, per session
  reading, isLoading, toast, toastDetail,
  tcall,                              \* the trainVoiceModel call of a session
  dirs, files,                        \* MODEL_STORAGE_PATH
  created, nTrain,                    \* history: ids in order of addition; calls
  text, selectedVoiceId, speed,       \* TtsGenerator, per session
  variability, genAudioDataUri, genIsLoading,
  scall                               \* the synthesis call of a caller

nameVars == <<nStep, nName, sane_model_name>>
codecVars ==
  <<cStep, cBytes, cMime, cUri, cRes, nStep, nName, sane_model_name>>
pageVars == <<localStorage, mounted, voices, created>>
formVars == <<modelName, audioFile, audioDataUri, reading>>
trainerVars ==
  <<modelName, audioFile, audioDataUri, reading, isLoading, toast,
    toastDetail>>
storageVars == <<dirs, files>>
genFormVars == <<text, selectedVoiceId, speed, variability>>
genVars ==
  <<text, selectedVoiceId, speed, variability, genAudioDataUri, genIsLoading,
    scall>>

vars ==
  <<cStep, cBytes, cMime, cUri, cRes, nStep, nName, sane_model_name,
    localStorage, mounted, voices,
    modelName, audioFile, audioDataUri, reading, isLoading, toast,
    toastDetail, tcall,
    dirs, files, created, nTrain, text, selectedVoiceId, speed, variability,
    genAudioDataUri, genIsLoading, scall>>

NameIdle ==
  /\ nStep = "off"
  /\ nName = <<>>
  /\ sane_model_name = <<>>

CodecIdle ==
  /\ cStep = "off"
  /\ cBytes = <<>>
  /\ cMime = <<>>
  /\ cUri = <<>>
  /\ cRes = DecodeError
  /\ NameIdle

\* No page is open, nothing is stored, no call is in flight.
SystemIdle ==
  /\ localStorage = NoItem
  /\ mounted = [s \in Sessions |-> FALSE]
  /\ voices = [s \in Sessions |-> <<>>]
  /\ modelName = [s \in Sessions |-> <<>>]
  /\ audioFile = [s \in Sessions |-> NullFile]
  /\ audioDataUri = [s \in Sessions |-> Null]
  /\ reading = [s \in Sessions |-> {}]
  /\ isLoading = [s \in Sessions |-> FALSE]
  /\ toast = [s \in Sessions |-> "none"]
  /\ toastDetail = [s \in Sessions |-> NoDetail]
  /\ tcall = [c \in Callers |-> IdleCall]
  /\ dirs = {}
  /\ files = {}
  /\ created = <<>>
  /\ nTrain = 0
  /\ text = [s \in Sessions |-> <<>>]
  /\ selectedVoiceId = [s \in Sessions |-> <<>>]
  /\ speed = [s \in Sessions |-> 10]
  /\ variability = [s \in Sessions |-> 5]
  /\ genAudioDataUri = [s \in Sessions |-> Null]
  /\ genIsLoading = [s \in Sessions |-> FALSE]
  /\ scall = [c \in Callers |-> SynthIdle]

InitCodec ==
  /\ SystemIdle
  /\ NameIdle
  /\ cRes = DecodeError
  /\ \/ /\ cStep = "input"
        /\ cBytes \in ByteSeqs
        /\ cMime \in MimeStrings
        /\ cUri = <<>>
     \/ /\ cStep = "raw"
        /\ cBytes = <<>>
        /\ cMime = <<>>
        /\ cUri \in RawUris

Encode ==
  /\ cStep = "input"
  /\ cUri' = encode_audio_to_data_uri(cBytes, cMime)
  /\ cStep' = "encoded"
  /\ UNCHANGED <<cBytes, cMime, cRes, nameVars>>
  /\ UNCHANGED <<pageVars, trainerVars, tcall, storageVars, nTrain, genVars>>

Decode ==
  /\ cStep \in {"encoded", "raw"}
  /\ cRes' = decode_data_uri(cUri)
  /\ cStep' = IF cStep = "encoded" THEN "roundtrip" ELSE "decoded"
  /\ UNCHANGED <<cBytes, cMime, cUri, nameVars>>
  /\ UNCHANGED <<pageVars, trainerVars, tcall, storageVars, nTrain, genVars>>

NextCodec == Encode \/ Decode

SpecCodec == InitCodec /\ [][NextCodec]_vars

(***************************************************************************)
(* The sanitizer of train_voice_endpoint, applied to every name of the     *)
(* bound.                                                                  *)
(***************************************************************************)
\* The characters of the names: a letter, a digit, the three other characters
\* that are kept, and one that is not.
NameChars == {"a", "7", " ", "_", "-", "!"}

ModelNames == SeqsUpTo(NameChars, MaxNameLen)

InitName ==
  /\ SystemIdle
  /\ cStep = "off"
  /\ cBytes = <<>>
  /\ cMime = <<>>
  /\ cUri = <<>>
  /\ cRes = DecodeError
  /\ nStep = "input"
  /\ nName \in ModelNames
  /\ sane_model_name = <<>>

\* The three lines that compute sane_model_name from request.modelName.
Sanitize ==
  /\ nStep = "input"
  /\ sane_model_name' = SaneModelName(nName)
  /\ nStep' = "sanitized"
  /\ UNCHANGED <<cStep, cBytes, cMime, cUri, cRes, nName>>
  /\ UNCHANGED <<pageVars, trainerVars, tcall, storageVars, nTrain, genVars>>

NextName == Sanitize

SpecName == InitName /\ [][NextName]_vars

(***************************************************************************)
(* page.tsx and voice-trainer.tsx: the pages, and the training calls they  *)
(* make through trainVoiceModelFlow to train_voice_endpoint.               *)
(***************************************************************************)
Init == CodecIdle /\ SystemIdle

\* The mutant: the generator starts with no voice selected.
MountUnselected(s) ==
  /\ ~mounted[s]
  /\ tcall[s].phase = "idle"
  /\ mounted' = [mounted EXCEPT ![s] = TRUE]
  /\ voices' = [voices EXCEPT ![s] = VoicesInitializer(localStorage)]
  /\ localStorage' = PersistenceEffect(voices'[s])
  /\ selectedVoiceId' = [selectedVoiceId EXCEPT ![s] = <<>>]
  /\ UNCHANGED <<codecVars, trainerVars, tcall, storageVars, created, nTrain,
                 text, speed, variability, genAudioDataUri, genIsLoading,
                 scall>>

\* Home is rendered for the first time: the initializer reads the item and
\* the effect writes it back.
Mount(s) ==
  /\ ~mounted[s]
  /\ tcall[s].phase = "idle"
  /\ mounted' = [mounted EXCEPT ![s] = TRUE]
  /\ voices' = [voices EXCEPT ![s] = VoicesInitializer(localStorage)]
  /\ localStorage' = PersistenceEffect(voices'[s])
  /\ selectedVoiceId' = [selectedVoiceId EXCEPT ![s] = voices'[s][1].id]
  /\ UNCHANGED <<codecVars, trainerVars, tcall, storageVars, created, nTrain,
                 text, speed, variability, genAudioDataUri, genIsLoading,
                 scall>>

\* The page is closed or reloaded: its component state is gone, the call it
\* made goes on in the server.
Close(s) ==
  /\ mounted[s]
  /\ mounted' = [mounted EXCEPT ![s] = FALSE]
  /\ voices' = [voices EXCEPT ![s] = <<>>]
  /\ modelName' = [modelName EXCEPT ![s] = <<>>]
  /\ audioFile' = [audioFile EXCEPT ![s] = NullFile]
  /\ audioDataUri' = [audioDataUri EXCEPT ![s] = Null]
  /\ reading' = [reading EXCEPT ![s] = {}]
  /\ isLoading' = [isLoading EXCEPT ![s] = FALSE]
  /\ toast' = [toast EXCEPT ![s] = "none"]
  /\ toastDetail' = [toastDetail EXCEPT ![s] = NoDetail]
  /\ text' = [text EXCEPT ![s] = <<>>]
  /\ selectedVoiceId' = [selectedVoiceId EXCEPT ![s] = <<>>]
  /\ speed' = [speed EXCEPT ![s] = 10]
  /\ variability' = [variability EXCEPT ![s] = 5]
  /\ genAudioDataUri' = [genAudioDataUri EXCEPT ![s] = Null]
  /\ genIsLoading' = [genIsLoading EXCEPT ![s] = FALSE]
  /\ UNCHANGED <<codecVars, localStorage, tcall, storageVars, created, nTrain,
                 scall>>

\* The result of a call whose page is gone is dropped.
Discard(s) ==
  /\ ~mounted[s]
  /\ tcall[s].phase = "returned"
  /\ tcall' = [tcall EXCEPT ![s] = IdleCall]
  /\ UNCHANGED <<codecVars, pageVars, trainerVars, storageVars, nTrain,
                 genVars>>

\* onChange of the model-name input.
SetModelName(s, n) ==
  /\ mounted[s]
  /\ n # modelName[s]
  /\ modelName' = [modelName EXCEPT ![s] = n]
  /\ UNCHANGED <<codecVars, pageVars, audioFile, audioDataUri, reading,
                 isLoading, toast, toastDetail, tcall, storageVars, nTrain,
                 genVars>>

\* handleFileChange(event), f the file of the event (NullFile: none).
handleFileChange(s, f) ==
  /\ mounted[s]
  /\ IF f = NullFile THEN
       /\ audioFile' = [audioFile EXCEPT ![s] = NullFile]
       /\ audioDataUri' = [audioDataUri EXCEPT ![s] = Null]
       /\ UNCHANGED <<reading, toast, toastDetail>>
     ELSE IF f.size > FiveMB THEN
       /\ toast' = [toast EXCEPT ![s] = "error: size"]
       /\ toastDetail' = [toastDetail EXCEPT ![s] = NoDetail]
       /\ UNCHANGED <<audioFile, audioDataUri, reading>>
     ELSE IF f.type \notin AllowedTypes THEN
       /\ toast' = [toast EXCEPT ![s] = "error: type"]
       /\ toastDetail' = [toastDetail EXCEPT ![s] = NoDetail]
       /\ UNCHANGED <<audioFile, audioDataUri, reading>>
     ELSE
       /\ audioFile' = [audioFile EXCEPT ![s] = f]
       /\ reading' = [reading EXCEPT ![s] = @ \cup {f}]
       /\ UNCHANGED <<audioDataUri, toast, toastDetail>>
  /\ UNCHANGED <<codecVars, pageVars, modelName, isLoading, tcall,
                 storageVars, nTrain, genVars>>

\* reader.onload of the reader that reads f.
ReaderOnload(s, f) ==
  /\ mounted[s]
  /\ f \in reading[s]
  /\ audioDataUri' = [audioDataUri EXCEPT ![s] = readAsDataURL(f)]
  /\ reading' = [reading EXCEPT ![s] = @ \ {f}]
  /\ UNCHANGED <<codecVars, pageVars, modelName, audioFile, isLoading, toast,
                 toastDetail, tcall, storageVars, nTrain, genVars>>

\* handleTrainModel, up to the await: the button is enabled, the checks, and
\* the call.
handleTrainModel(s) ==
  /\ mounted[s]
  /\ ~isLoading[s] /\ Truthy(audioDataUri[s]) /\ Truthy(modelName[s])
  /\ tcall[s].phase = "idle"
  /\ nTrain < MaxTrainings
  /\ IF Strip(modelName[s]) = <<>> THEN
       /\ toast' = [toast EXCEPT ![s] = "error: name"]
       /\ toastDetail' = [toastDetail EXCEPT ![s] = NoDetail]
       /\ UNCHANGED <<isLoading, tcall, nTrain>>
     ELSE
       /\ isLoading' = [isLoading EXCEPT ![s] = TRUE]
       /\ tcall' = [tcall EXCEPT ![s] =
            [IdleCall EXCEPT !.phase = "requested",
                             !.modelName = modelName[s],
                             !.audioDataUri = audioDataUri[s]]]
       /\ nTrain' = nTrain + 1
       /\ UNCHANGED <<toast, toastDetail>>
  /\ UNCHANGED <<codecVars, pageVars, formVars, storageVars, genVars>>

\* The service handles POST /api/train-voice (the endpoint has no await: it
\* runs from its first line to its last without another request in between).
TrainVoiceEndpoint(s, suffix, fault) ==
  /\ tcall[s].phase = "requested"
  /\ LET r == train_voice_endpoint(dirs, files,
                  [modelName |-> tcall[s].modelName,
                   audioDataUri |-> tcall[s].audioDataUri], suffix, fault)
     IN /\ dirs' = r.dirs
        /\ files' = r.files
        /\ tcall' = [tcall EXCEPT ![s].phase = "responded", ![s].resp = r.resp]
  /\ UNCHANGED <<codecVars, pageVars, trainerVars, nTrain, genVars>>

\* fetch rejects: the service is not reachable.
TrainFetchRejected(s) ==
  /\ tcall[s].phase = "requested"
  /\ tcall' = [tcall EXCEPT ![s].phase = "responded", ![s].resp = NetworkError]
  /\ UNCHANGED <<codecVars, pageVars, trainerVars, storageVars, nTrain,
                 genVars>>

\* trainVoiceModelFlow returns or throws.
TrainFlowReturn(s) ==
  /\ tcall[s].phase = "responded"
  /\ tcall' = [tcall EXCEPT ![s].phase = "returned",
                            ![s].result = trainVoiceModelFlow(tcall[s].resp)]
  /\ UNCHANGED <<codecVars, pageVars, trainerVars, storageVars, nTrain,
                 genVars>>

\* The mutant: the form is reset in the finally block, after a failure too.
handleTrainModelResumeResetting(s) ==
  /\ mounted[s]
  /\ tcall[s].phase = "returned"
  /\ LET result == tcall[s].result
         newVoice == [id |-> result.modelId, name |-> tcall[s].modelName]
     IN IF ~result.threw /\ Truthy(result.modelId) THEN
          /\ voices' = [voices EXCEPT ![s] = addVoice(voices[s], newVoice)]
          /\ localStorage' = IF voices'[s] # voices[s]
                             THEN PersistenceEffect(voices'[s])
                             ELSE localStorage
          /\ created' = IF voices'[s] # voices[s]
                        THEN Append(created, newVoice.id)
                        ELSE created
          /\ toast' = [toast EXCEPT ![s] = "success"]
          /\ toastDetail' = [toastDetail EXCEPT ![s] = NoDetail]
        ELSE
          /\ toast' = [toast EXCEPT ![s] =
               IF result.threw THEN "error: training" ELSE "error: no model id"]
          /\ toastDetail' = [toastDetail EXCEPT ![s] =
               IF result.threw
               THEN [status |-> result.status, detail |-> result.detail]
               ELSE NoDetail]
          /\ UNCHANGED <<voices, localStorage, created>>
  /\ modelName' = [modelName EXCEPT ![s] = <<>>]
  /\ audioFile' = [audioFile EXCEPT ![s] = NullFile]
  /\ audioDataUri' = [audioDataUri EXCEPT ![s] = Null]
  /\ isLoading' = [isLoading EXCEPT ![s] = FALSE]
  /\ tcall' = [tcall EXCEPT ![s] = IdleCall]
  /\ selectedVoiceId' = [selectedVoiceId EXCEPT ![s] =
       EnsureSelectedVoice(voices'[s], @)]
  /\ UNCHANGED <<codecVars, mounted, reading, storageVars, nTrain, text, speed,
                 variability, genAudioDataUri, genIsLoading, scall>>

\* handleTrainModel, from the await on: onVoiceTrained (addVoice, and the
\* effect when the list changed), the toast, the reset of the form, finally.
handleTrainModelResume(s) ==
  /\ mounted[s]
  /\ tcall[s].phase = "returned"
  /\ LET result == tcall[s].result
         newVoice == [id |-> result.modelId, name |-> tcall[s].modelName]
     IN IF ~result.threw /\ Truthy(result.modelId) THEN
          /\ voices' = [voices EXCEPT ![s] = addVoice(voices[s], newVoice)]
          /\ localStorage' = IF voices'[s] # voices[s]
                             THEN PersistenceEffect(voices'[s])
                             ELSE localStorage
          /\ created' = IF voices'[s] # voices[s]
                        THEN Append(created, newVoice.id)
                        ELSE created
          /\ toast' = [toast EXCEPT ![s] = "success"]
          /\ toastDetail' = [toastDetail EXCEPT ![s] = NoDetail]
          /\ modelName' = [modelName EXCEPT ![s] = <<>>]
          /\ audioFile' = [audioFile EXCEPT ![s] = NullFile]
          /\ audioDataUri' = [audioDataUri EXCEPT ![s] = Null]
        ELSE
          /\ toast' = [toast EXCEPT ![s] =
               IF result.threw THEN "error: training" ELSE "error: no model id"]
          /\ toastDetail' = [toastDetail EXCEPT ![s] =
               IF result.threw
               THEN [status |-> result.status, detail |-> result.detail]
               ELSE NoDetail]
          /\ UNCHANGED <<voices, localStorage, created, modelName, audioFile,
                         audioDataUri>>
  /\ isLoading' = [isLoading EXCEPT ![s] = FALSE]
  /\ tcall' = [tcall EXCEPT ![s] = IdleCall]
  /\ selectedVoiceId' = [selectedVoiceId EXCEPT ![s] =
       EnsureSelectedVoice(voices'[s], @)]
  /\ UNCHANGED <<codecVars, mounted, reading, storageVars, nTrain, text, speed,
                 variability, genAudioDataUri, genIsLoading, scall>>

\* Two pages on one browser profile; each user has one name in mind and one
\* good file at hand, and the service meets no I/O fault.
Next ==
  \E s \in Sessions :
    \/ Mount(s)
    \/ Close(s)
    \/ Discard(s)
    \/ SetModelName(s, <<"v">>)
    \/ \E f \in {WavFile, NullFile} : handleFileChange(s, f)
    \/ ReaderOnload(s, WavFile)
    \/ handleTrainModel(s)
    \/ \E suffix \in HexSuffixes : TrainVoiceEndpoint(s, suffix, "none")
    \/ TrainFetchRejected(s)
    \/ TrainFlowReturn(s)
    \/ handleTrainModelResume(s)

Spec == Init /\ [][Next]_vars

(***************************************************************************)
(* One page that starts from any content of the item 'trainedVoices', and  *)
(* a service that may answer with any model id.                            *)
(***************************************************************************)
\* fetch resolves with a response that another service at PYTHON_API_BASE_URL
\* sent.
TrainFetchResolved(c, resp) ==
  /\ tcall[c].phase = "requested"
  /\ tcall' = [tcall EXCEPT ![c].phase = "responded", ![c].resp = resp]
  /\ UNCHANGED <<codecVars, pageVars, trainerVars, storageVars, nTrain,
                 genVars>>

\* Entries that the item may hold: a voice with the id of a built-in voice
\* and another name, and two trained voices.
CachedEntries ==
  {[id |-> DefaultMaleId, name |-> <<"x">>],
   [id |-> ModelId(<<"v">>, <<"0", "0", "0", "0", "0", "0">>), name |-> <<"v">>],
   [id |-> ModelId(<<"w">>, <<"a", "1", "b", "2", "c", "3">>), name |-> <<"w">>]}

CacheItems ==
  {NoItem} \cup
    {[present |-> TRUE, value |-> q] : q \in SeqsUpTo(CachedEntries, MaxCacheLen)}

InitCache ==
  /\ CodecIdle
  /\ localStorage \in CacheItems
  /\ mounted = [s \in Sessions |-> FALSE]
  /\ voices = [s \in Sessions |-> <<>>]
  /\ modelName = [s \in Sessions |-> <<>>]
  /\ audioFile = [s \in Sessions |-> NullFile]
  /\ audioDataUri = [s \in Sessions |-> Null]
  /\ reading = [s \in Sessions |-> {}]
  /\ isLoading = [s \in Sessions |-> FALSE]
  /\ toast = [s \in Sessions |-> "none"]
  /\ toastDetail = [s \in Sessions |-> NoDetail]
  /\ tcall = [c \in Callers |-> IdleCall]
  /\ dirs = {}
  /\ files = {}
  /\ created = <<>>
  /\ nTrain = 0
  /\ text = [s \in Sessions |-> <<>>]
  /\ selectedVoiceId = [s \in Sessions |-> <<>>]
  /\ speed = [s \in Sessions |-> 10]
  /\ variability = [s \in Sessions |-> 5]
  /\ genAudioDataUri = [s \in Sessions |-> Null]
  /\ genIsLoading = [s \in Sessions |-> FALSE]
  /\ scall = [c \in Callers |-> SynthIdle]

NextCache ==
  \/ Mount("s1")
  \/ Close("s1")
  \/ Discard("s1")
  \/ SetModelName("s1", <<"v">>)
  \/ handleFileChange("s1", WavFile)
  \/ ReaderOnload("s1", WavFile)
  \/ handleTrainModel("s1")
  \/ TrainVoiceEndpoint("s1", <<"0", "0", "0", "0", "0", "0">>, "none")
  \/ TrainFetchResolved("s1", TrainVoiceResponse("completed", DefaultMaleId))
  \/ TrainFlowReturn("s1")
  \/ handleTrainModelResume("s1")

SpecCache == InitCache /\ [][NextCache]_vars

(***************************************************************************)
(* The trainings of one page and of a direct caller of trainVoiceModel,    *)
(* with every file a user can pick and every I/O fault of the service.     *)
(***************************************************************************)
\* trainVoiceModel(input), called with an input of the caller's own
\* (TrainVoiceModelInputSchema takes any two strings).
InvokeTrain(input) ==
  /\ tcall[Direct].phase = "idle"
  /\ nTrain < MaxTrainings
  /\ tcall' = [tcall EXCEPT ![Direct] =
       [IdleCall EXCEPT !.phase = "requested",
                        !.modelName = input.modelName,
                        !.audioDataUri = input.audioDataUri]]
  /\ nTrain' = nTrain + 1
  /\ UNCHANGED <<codecVars, pageVars, trainerVars, storageVars, genVars>>

\* The direct caller has its result, or its error.
DirectTrainReturn ==
  /\ tcall[Direct].phase = "returned"
  /\ tcall' = [tcall EXCEPT ![Direct] = IdleCall]
  /\ UNCHANGED <<codecVars, pageVars, trainerVars, storageVars, nTrain,
                 genVars>>

\* The inputs of the direct caller: the content of each file as a data URI.
TrainInputs ==
  {[modelName |-> <<"v">>, audioDataUri |-> readAsDataURL(f)] : f \in Files}

\* No training call is in flight.
TrainQuiet == \A c \in Callers : tcall[c].phase = "idle"

\* One page and one direct caller; a training is started when no other is
\* in flight, and uuid4 gives the same six digits every time.
NextTrain ==
  \/ Mount("s1")
  \/ SetModelName("s1", <<"v">>)
  \/ \E f \in {WavFile, BigFile, TextFile, NullFile} : handleFileChange("s1", f)
  \/ ReaderOnload("s1", WavFile)
  \/ TrainQuiet /\ handleTrainModel("s1")
  \/ TrainQuiet /\ \E input \in TrainInputs : InvokeTrain(input)
  \/ \E c \in {"s1", Direct}, fault \in TrainFaults :
       TrainVoiceEndpoint(c, <<"0", "0", "0", "0", "0", "0">>, fault)
  \/ \E c \in {"s1", Direct} : TrainFetchRejected(c)
  \/ \E c \in {"s1", Direct} : TrainFlowReturn(c)
  \/ handleTrainModelResume("s1")
  \/ DirectTrainReturn

SpecTrain == Init /\ [][NextTrain]_vars

(***************************************************************************)
(* The trainer form of one page, with two good files at hand, and a        *)
(* service that may also answer without a modelId.                         *)
(***************************************************************************)
\* A 200 answer within TrainVoiceModelOutputSchema that carries no modelId:
\* the training of a service that fine-tunes is not over yet.
PendingResponse == TrainVoiceResponse("pending", Null)

NextForm ==
  \/ Mount("s1")
  \/ SetModelName("s1", <<"v">>)
  \/ \E f \in {WavFile, Mp3File, NullFile} : handleFileChange("s1", f)
  \/ \E f \in {WavFile, Mp3File} : ReaderOnload("s1", f)
  \/ handleTrainModel("s1")
  \/ \E fault \in {"none", "write"} :
       TrainVoiceEndpoint("s1", <<"0", "0", "0", "0", "0", "0">>, fault)
  \/ TrainFetchResolved("s1", PendingResponse)
  \/ TrainFetchRejected("s1")
  \/ TrainFlowReturn("s1")
  \/ handleTrainModelResume("s1")

SpecForm == Init /\ [][NextForm]_vars

(***************************************************************************)
(* The synthesis requests of a page that holds one trained voice, and of a *)
(* direct caller of the two flows.                                         *)
(***************************************************************************)
TrainedVoice ==
  [id |-> ModelId(<<"v">>, <<"0", "0", "0", "0", "0", "0">>), name |-> <<"v">>]

UnknownId == <<"n", "o", "b", "o", "d", "y">>

Hi == <<"h", "i">>

\* Page s1 has trained the voice "v" from WavFile: the state in which
\* handleTrainModelResume left the page, the item and the storage.
InitSynth ==
  /\ CodecIdle
  /\ localStorage = PersistenceEffect(initialVoices \o <<TrainedVoice>>)
  /\ mounted = [s \in Sessions |-> s = "s1"]
  /\ voices = [s \in Sessions |->
                 IF s = "s1" THEN initialVoices \o <<TrainedVoice>> ELSE <<>>]
  /\ modelName = [s \in Sessions |-> <<>>]
  /\ audioFile = [s \in Sessions |-> NullFile]
  /\ audioDataUri = [s \in Sessions |-> Null]
  /\ reading = [s \in Sessions |-> {}]
  /\ isLoading = [s \in Sessions |-> FALSE]
  /\ toast = [s \in Sessions |-> IF s = "s1" THEN "success" ELSE "none"]
  /\ toastDetail = [s \in Sessions |-> NoDetail]
  /\ tcall = [c \in Callers |-> IdleCall]
  /\ dirs = {TrainedVoice.id}
  /\ files = WriteFile({}, TrainedVoice.id, "wav", WavFile.data)
  /\ created = <<TrainedVoice.id>>
  /\ nTrain = 1
  /\ text = [s \in Sessions |-> <<>>]
  /\ selectedVoiceId = [s \in Sessions |->
                          IF s = "s1" THEN DefaultMaleId ELSE <<>>]
  /\ speed = [s \in Sessions |-> 10]
  /\ variability = [s \in Sessions |-> 5]
  /\ genAudioDataUri = [s \in Sessions |-> Null]
  /\ genIsLoading = [s \in Sessions |-> FALSE]
  /\ scall = [c \in Callers |-> SynthIdle]

\* onChange of the text area.
SetText(s, t) ==
  /\ mounted[s]
  /\ t # text[s]
  /\ text' = [text EXCEPT ![s] = t]
  /\ UNCHANGED <<codecVars, pageVars, trainerVars, tcall, storageVars, nTrain,
                 selectedVoiceId, speed, variability, genAudioDataUri,
                 genIsLoading, scall>>

\* onValueChange of the Select: v is the id of one of the voices listed.
SetSelectedVoiceId(s, v) ==
  /\ mounted[s]
  /\ v \in Ids(voices[s])
  /\ v # selectedVoiceId[s]
  /\ selectedVoiceId' = [selectedVoiceId EXCEPT ![s] = v]
  /\ UNCHANGED <<codecVars, pageVars, trainerVars, tcall, storageVars, nTrain,
                 text, speed, variability, genAudioDataUri, genIsLoading,
                 scall>>

\* onValueChange of the speed slider (min 0.5, max 2.0, step 0.1).
SetSpeed(s, x) ==
  /\ mounted[s]
  /\ 5 <= x /\ x <= 20
  /\ x # speed[s]
  /\ speed' = [speed EXCEPT ![s] = x]
  /\ UNCHANGED <<codecVars, pageVars, trainerVars, tcall, storageVars, nTrain,
                 text, selectedVoiceId, variability, genAudioDataUri,
                 genIsLoading, scall>>

\* onValueChange of the variability slider (min 0, max 1.0, step 0.1).
SetVariability(s, x) ==
  /\ mounted[s]
  /\ 0 <= x /\ x <= 10
  /\ x # variability[s]
  /\ variability' = [variability EXCEPT ![s] = x]
  /\ UNCHANGED <<codecVars, pageVars, trainerVars, tcall, storageVars, nTrain,
                 text, selectedVoiceId, speed, genAudioDataUri, genIsLoading,
                 scall>>

\* The mutant: the audio of the request before is left in place.
handleGenerateSpeechKeeping(s) ==
  /\ mounted[s]
  /\ ~genIsLoading[s]
  /\ scall[s].phase = "idle"
  /\ IF Strip(text[s]) = <<>> THEN
       /\ toast' = [toast EXCEPT ![s] = "error: text"]
       /\ toastDetail' = [toastDetail EXCEPT ![s] = NoDetail]
       /\ UNCHANGED <<genIsLoading, scall>>
     ELSE IF ~Truthy(selectedVoiceId[s]) THEN
       /\ toast' = [toast EXCEPT ![s] = "error: voice"]
       /\ toastDetail' = [toastDetail EXCEPT ![s] = NoDetail]
       /\ UNCHANGED <<genIsLoading, scall>>
     ELSE
       /\ genIsLoading' = [genIsLoading EXCEPT ![s] = TRUE]
       /\ scall' = [scall EXCEPT ![s] =
            StartFlow("generateSpeech",
                      SynthInput(text[s], selectedVoiceId[s], Num(speed[s]),
                                 Num(variability[s])))]
       /\ UNCHANGED <<toast, toastDetail>>
  /\ UNCHANGED <<codecVars, pageVars, formVars, isLoading, tcall, storageVars,
                 nTrain, genFormVars, genAudioDataUri>>

\* handleGenerateSpeech, up to the await: the button is enabled, the two
\* checks, and the call of generateSpeech.
handleGenerateSpeech(s) ==
  /\ mounted[s]
  /\ ~genIsLoading[s]
  /\ scall[s].phase = "idle"
  /\ IF Strip(text[s]) = <<>> THEN
       /\ toast' = [toast EXCEPT ![s] = "error: text"]
       /\ toastDetail' = [toastDetail EXCEPT ![s] = NoDetail]
       /\ UNCHANGED <<genAudioDataUri, genIsLoading, scall>>
     ELSE IF ~Truthy(selectedVoiceId[s]) THEN
       /\ toast' = [toast EXCEPT ![s] = "error: voice"]
       /\ toastDetail' = [toastDetail EXCEPT ![s] = NoDetail]
       /\ UNCHANGED <<genAudioDataUri, genIsLoading, scall>>
     ELSE
       /\ genIsLoading' = [genIsLoading EXCEPT ![s] = TRUE]
       /\ genAudioDataUri' = [genAudioDataUri EXCEPT ![s] = Null]
       /\ scall' = [scall EXCEPT ![s] =
            StartFlow("generateSpeech",
                      SynthInput(text[s], selectedVoiceId[s], Num(speed[s]),
                                 Num(variability[s])))]
       /\ UNCHANGED <<toast, toastDetail>>
  /\ UNCHANGED <<codecVars, pageVars, formVars, isLoading, tcall, storageVars,
                 nTrain, genFormVars>>

\* generateSpeech(input) or customizeVoice(input), called with an input of
\* the caller's own.
InvokeFlow(flow, input) ==
  /\ scall[Direct].phase = "idle"
  /\ scall' = [scall EXCEPT ![Direct] = StartFlow(flow, input)]
  /\ UNCHANGED <<codecVars, pageVars, trainerVars, tcall, storageVars, nTrain,
                 genFormVars, genAudioDataUri, genIsLoading>>

\* The service of PYTHON_BACKEND_GUIDE.md handles the POST /api/tts of c.
GenerateTtsEndpoint(c, loaded, outcome) ==
  /\ scall[c].phase = "requested"
  /\ LET r == generate_tts_endpoint(files, scall[c].body, loaded, outcome)
     IN scall' = [scall EXCEPT ![c].phase = "responded",
                               ![c].resp = r.resp,
                               ![c].engine = r.engine,
                               ![c].speaker = r.speaker]
  /\ UNCHANGED <<codecVars, pageVars, trainerVars, tcall, storageVars, nTrain,
                 genFormVars, genAudioDataUri, genIsLoading>>

\* fetch resolves with a response that another service at PYTHON_API_BASE_URL
\* sent.
TtsFetchResolved(c, resp) ==
  /\ scall[c].phase = "requested"
  /\ scall' = [scall EXCEPT ![c].phase = "responded", ![c].resp = resp]
  /\ UNCHANGED <<codecVars, pageVars, trainerVars, tcall, storageVars, nTrain,
                 genFormVars, genAudioDataUri, genIsLoading>>

\* fetch rejects: the service is not reachable.
TtsFetchRejected(c) ==
  /\ scall[c].phase = "requested"
  /\ scall' = [scall EXCEPT ![c].phase = "responded",
                            ![c].resp = TtsNetworkError]
  /\ UNCHANGED <<codecVars, pageVars, trainerVars, tcall, storageVars, nTrain,
                 genFormVars, genAudioDataUri, genIsLoading>>

\* The mutant: the flow posts the request again when the attempt failed.
SynthFlowReturnRetrying(c) ==
  /\ scall[c].phase = "responded"
  /\ scall' = [scall EXCEPT ![c].phase =
                 IF scall[c].resp.kind = "neterr" \/ scall[c].resp.status # 200
                 THEN "requested" ELSE "returned",
                            ![c].result =
                              IF scall[c].flow = "generateSpeech"
                              THEN generateSpeechFlow(scall[c].resp)
                              ELSE customizeVoiceFlow(scall[c].resp)]
  /\ UNCHANGED <<codecVars, pageVars, trainerVars, tcall, storageVars, nTrain,
                 genFormVars, genAudioDataUri, genIsLoading>>

\* The flow returns or throws.
SynthFlowReturn(c) ==
  /\ scall[c].phase = "responded"
  /\ scall' = [scall EXCEPT ![c].phase = "returned",
                            ![c].result =
                              IF scall[c].flow = "generateSpeech"
                              THEN generateSpeechFlow(scall[c].resp)
                              ELSE customizeVoiceFlow(scall[c].resp)]
  /\ UNCHANGED <<codecVars, pageVars, trainerVars, tcall, storageVars, nTrain,
                 genFormVars, genAudioDataUri, genIsLoading>>

\* handleGenerateSpeech, from the await on.
handleGenerateSpeechResume(s) ==
  /\ mounted[s]
  /\ scall[s].phase = "returned"
  /\ IF ~scall[s].result.threw THEN
       /\ genAudioDataUri' =
            [genAudioDataUri EXCEPT ![s] = scall[s].result.audioDataUri]
       /\ toast' = [toast EXCEPT ![s] = "success: audio"]
       /\ toastDetail' = [toastDetail EXCEPT ![s] = NoDetail]
     ELSE
       /\ toast' = [toast EXCEPT ![s] = "error: generation"]
       /\ toastDetail' = [toastDetail EXCEPT ![s] =
            [status |-> scall[s].result.status,
             detail |-> scall[s].result.detail]]
       /\ UNCHANGED genAudioDataUri
  /\ genIsLoading' = [genIsLoading EXCEPT ![s] = FALSE]
  /\ scall' = [scall EXCEPT ![s] = SynthIdle]
  /\ UNCHANGED <<codecVars, pageVars, formVars, isLoading, tcall, storageVars,
                 nTrain, genFormVars>>

\* The direct caller has its result, or its error.
DirectReturn ==
  /\ scall[Direct].phase = "returned"
  /\ scall' = [scall EXCEPT ![Direct] = SynthIdle]
  /\ UNCHANGED <<codecVars, pageVars, trainerVars, tcall, storageVars, nTrain,
                 genFormVars, genAudioDataUri, genIsLoading>>

\* The inputs of the direct caller: a good one, and one for each way an
\* input can be wrong.
DirectInputs ==
  {SynthInput(Hi, DefaultMaleId, Undefined, Undefined),
   SynthInput(Hi, TrainedVoice.id, Num(10), Num(5)),
   SynthInput(Hi, UnknownId, Num(10), Num(5)),
   SynthInput(<<>>, DefaultMaleId, Undefined, Undefined),
   SynthInput(Hi, DefaultMaleId, Num(21), Num(5)),
   SynthInput(Hi, DefaultMaleId, Num(4), Num(5)),
   SynthInput(Hi, DefaultMaleId, Num(10), Num(11)),
   SynthInput(Hi, DefaultMaleId, Num(10), Num(-1))}

\* Responses of a service that is not the one of the guide: no audioDataUri,
\* an empty payload, a type that is not audio, and a failure with a body.
OtherResponses ==
  {TTSResponse(Null),
   TTSResponse(DataColon \o AudioWav \o Base64Comma),
   TTSResponse(DataColon \o TextPlain \o Base64Comma \o b64encode(<<77>>)),
   TtsHttpError(500, "engine down")}

\* No synthesis call is in flight.
Quiet == \A c \in Callers : scall[c].phase = "idle"

\* One page and one direct caller; a call is made when no other is in
\* flight (the synthesis requests share no state).
NextSynth ==
  \/ \E t \in {<<>>, Hi} : SetText("s1", t)
  \/ \E v \in Ids(initialVoices) \cup {TrainedVoice.id} :
       SetSelectedVoiceId("s1", v)
  \/ \E x \in {10, 20} : SetSpeed("s1", x)
  \/ \E x \in {5, 10} : SetVariability("s1", x)
  \/ Quiet /\ handleGenerateSpeech("s1")
  \/ Quiet /\ \E flow \in Flows, input \in DirectInputs : InvokeFlow(flow, input)
  \/ \E c \in {"s1", Direct}, loaded \in BOOLEAN, outcome \in EngineOutcomes :
       GenerateTtsEndpoint(c, loaded, outcome)
  \/ \E c \in {"s1", Direct}, resp \in OtherResponses : TtsFetchResolved(c, resp)
  \/ \E c \in {"s1", Direct} : TtsFetchRejected(c)
  \/ \E c \in {"s1", Direct} : SynthFlowReturn(c)
  \/ handleGenerateSpeechResume("s1")
  \/ DirectReturn

SpecSynth == InitSynth /\ [][NextSynth]_vars

(***************************************************************************)
(* The direct caller alone, against a service whose storage may have lost  *)
(* the voice of the page, or holds a voice whose name starts with          *)
(* "default-". The steps of the flow are taken when they can be; the       *)
(* service and the network owe nothing.                                    *)
(***************************************************************************)
DefaultNamedVoice ==
  [id |-> ModelId(DefaultDash \o <<"v">>, <<"0", "0", "0", "0", "0", "0">>),
   name |-> DefaultDash \o <<"v">>]

\* Page s1 has trained `voice` from WavFile; when ~stored, a later training
\* of the direct caller minted the same id, its write failed, and the except
\* handler removed the directory.
InitDirect ==
  \E voice \in {TrainedVoice, DefaultNamedVoice}, stored \in BOOLEAN :
    /\ CodecIdle
    /\ localStorage = PersistenceEffect(initialVoices \o <<voice>>)
    /\ mounted = [s \in Sessions |-> s = "s1"]
    /\ voices = [s \in Sessions |->
                   IF s = "s1" THEN initialVoices \o <<voice>> ELSE <<>>]
    /\ modelName = [s \in Sessions |-> <<>>]
    /\ audioFile = [s \in Sessions |-> NullFile]
    /\ audioDataUri = [s \in Sessions |-> Null]
    /\ reading = [s \in Sessions |-> {}]
    /\ isLoading = [s \in Sessions |-> FALSE]
    /\ toast = [s \in Sessions |-> IF s = "s1" THEN "success" ELSE "none"]
    /\ toastDetail = [s \in Sessions |-> NoDetail]
    /\ tcall = [c \in Callers |-> IdleCall]
    /\ dirs = IF stored THEN {voice.id} ELSE {}
    /\ files = IF stored
               THEN WriteFile({}, voice.id, "wav", WavFile.data) ELSE {}
    /\ created = <<voice.id>>
    /\ nTrain = IF stored THEN 1 ELSE 2
    /\ text = [s \in Sessions |-> <<>>]
    /\ selectedVoiceId = [s \in Sessions |->
                            IF s = "s1" THEN DefaultMaleId ELSE <<>>]
    /\ speed = [s \in Sessions |-> 10]
    /\ variability = [s \in Sessions |-> 5]
    /\ genAudioDataUri = [s \in Sessions |-> Null]
    /\ genIsLoading = [s \in Sessions |-> FALSE]
    /\ scall = [c \in Callers |-> SynthIdle]

\* The inputs of DirectInputs, and a good input for each voice of the page.
ListedInputs ==
  DirectInputs \cup
    {SynthInput(Hi, voices["s1"][i].id, Undefined, Undefined) :
       i \in 1..Len(voices["s1"])}

NextDirect ==
  \/ \E flow \in Flows, input \in ListedInputs : InvokeFlow(flow, input)
  \/ \E loaded \in BOOLEAN, outcome \in EngineOutcomes :
       GenerateTtsEndpoint(Direct, loaded, outcome)
  \/ \E resp \in OtherResponses : TtsFetchResolved(Direct, resp)
  \/ TtsFetchRejected(Direct)
  \/ SynthFlowReturn(Direct)
  \/ DirectReturn

SpecDirect ==
  /\ InitDirect
  /\ [][NextDirect]_vars
  /\ WF_vars(SynthFlowReturn(Direct))
  /\ WF_vars(DirectReturn)

(***************************************************************************)
(* The two forms of one page. What runs in the browser and in the flows    *)
(* goes on when it can; the service and the network owe nothing.           *)
(***************************************************************************)
NextLoading ==
  \/ Mount("s1")
  \/ SetModelName("s1", <<"v">>)
  \/ handleFileChange("s1", WavFile)
  \/ ReaderOnload("s1", WavFile)
  \/ handleTrainModel("s1")
  \/ TrainVoiceEndpoint("s1", <<"0", "0", "0", "0", "0", "0">>, "none")
  \/ TrainFetchRejected("s1")
  \/ TrainFlowReturn("s1")
  \/ handleTrainModelResume("s1")
  \/ SetText("s1", Hi)
  \/ \E v \in Ids(voices["s1"]) : SetSelectedVoiceId("s1", v)
  \/ handleGenerateSpeech("s1")
  \/ \E loaded \in BOOLEAN, outcome \in EngineOutcomes :
       GenerateTtsEndpoint("s1", loaded, outcome)
  \/ TtsFetchRejected("s1")
  \/ SynthFlowReturn("s1")
  \/ handleGenerateSpeechResume("s1")

SpecLoading ==
  /\ Init
  /\ [][NextLoading]_vars
  /\ WF_vars(TrainFlowReturn("s1"))
  /\ WF_vars(handleTrainModelResume("s1"))
  /\ WF_vars(SynthFlowReturn("s1"))
  /\ WF_vars(handleGenerateSpeechResume("s1"))

(***************************************************************************)
(* A direct caller that trains voices from samples of a type the service   *)
(* has no extension for, and then asks for speech with the ids it got.     *)
(***************************************************************************)
AudioFlac == AudioSlash \o <<"f", "l", "a", "c">>

\* A sample that the upload form does not take and trainVoiceModel does.
FlacFile ==
  [name |-> "d.flac", type |-> AudioFlac, size |-> 4096, data |-> <<0, 77>>]

\* The inputs of the direct trainer: two names, and a sample of a type with
\* and without an extension of its own.
FallbackInputs ==
  {[modelName |-> n, audioDataUri |-> readAsDataURL(f)] :
     n \in {<<"v">>, DefaultDash \o <<"v">>}, f \in {FlacFile, WavFile}}

\* The service meets no I/O fault and uuid4 gives the same six digits every
\* time; speech is asked for with an id that a training returned.
NextFallback ==
  \/ \E input \in FallbackInputs : InvokeTrain(input)
  \/ TrainVoiceEndpoint(Direct, <<"0", "0", "0", "0", "0", "0">>, "none")
  \/ TrainFlowReturn(Direct)
  \/ DirectTrainReturn
  \/ \E flow \in Flows, id \in dirs :
       InvokeFlow(flow, SynthInput(Hi, id, Undefined, Undefined))
  \/ \E loaded \in BOOLEAN, outcome \in EngineOutcomes :
       GenerateTtsEndpoint(Direct, loaded, outcome)
  \/ SynthFlowReturn(Direct)
  \/ DirectReturn

SpecFallback == Init /\ [][NextFallback]_vars

(***************************************************************************)
(* The voice list and the trainings.                                       *)
(***************************************************************************)
RECURSIVE IsSubseq(_, _)
\* a is b with some of its elements left out.
IsSubseq(a, b) ==
  IF Len(a) = 0 THEN TRUE
  ELSE IF Len(b) = 0 THEN FALSE
  ELSE IF a[1] = b[1] THEN IsSubseq(Tail(a), Tail(b))
  ELSE IsSubseq(a, Tail(b))

IdSeq(list) == [i \in 1..Len(list) |-> list[i].id]

TrainedPart(list) == SubSeq(list, Len(initialVoices) + 1, Len(list))

\* C3: in every reachable state the voice list of a page is the built-in
\* voices first, in their fixed order, then the trained voices in the order
\* of their creation, and no two entries share an id.
C3_ListOrder ==
  \A s \in Sessions :
    mounted[s] =>
      /\ Len(voices[s]) >= Len(initialVoices)
      /\ SubSeq(voices[s], 1, Len(initialVoices)) = initialVoices
      /\ Cardinality(Ids(voices[s])) = Len(voices[s])
      /\ IsSubseq(IdSeq(TrainedPart(voices[s])), created)

C3_Witness ==
  \E s, t \in Sessions :
    /\ s # t
    /\ mounted[s] /\ mounted[t]
    /\ Len(voices[s]) = Len(initialVoices) + 2
    /\ Len(voices[t]) = Len(initialVoices) + 1
    /\ Len(created) >= 2

\* The answer to the call of page s carries an id that its list holds.
Collides(s) ==
  /\ mounted[s]
  /\ tcall[s].phase = "returned"
  /\ ~tcall[s].result.threw
  /\ Truthy(tcall[s].result.modelId)
  /\ tcall[s].result.modelId \in Ids(voices[s])

\* C4: registering an identity whose id collides with an existing entry
\* fails (DuplicateVoice: the training is not reported as a success), and the
\* existing entries are left unchanged.
C4_DuplicateFails ==
  [][\A s \in Sessions :
       (Collides(s) /\ tcall'[s].phase = "idle")
         => (toast'[s] # "success" /\ voices'[s] = voices[s])]_vars

Answered(s) == tcall[s].phase \in {"responded", "returned"} /\ tcall[s].resp.kind = "http"

Succeeded(s) == Answered(s) /\ tcall[s].resp.status = 200

\* C5: of two concurrent trainings whose minted ids collide at most one
\* succeeds.
C5_CollisionOneSucceeds ==
  \A s, t \in Sessions :
    (s # t /\ Succeeded(s) /\ Succeeded(t))
      => tcall[s].resp.modelId # tcall[t].resp.modelId

\* C6: two concurrent trainings with the same modelName both succeed, with
\* distinct ids, each with a directory of its own in the storage.
C6_SameNameDistinctIds ==
  \A s, t \in Sessions :
    (s # t /\ Answered(s) /\ Answered(t)
       /\ tcall[s].modelName = tcall[t].modelName)
      => /\ Succeeded(s) /\ Succeeded(t)
         /\ tcall[s].resp.modelId # tcall[t].resp.modelId
         /\ {tcall[s].resp.modelId, tcall[t].resp.modelId} \subseteq dirs

(***************************************************************************)
(* The codec's claims.                                                     *)
(***************************************************************************)
SeparatorFree(m) == ~Contains(m, ",") /\ ~Contains(m, ";") /\ ~Contains(m, ":")

\* C1 as stated: for every byte sequence B and every MIME string M,
\* decode_data_uri(encode_audio_to_data_uri(B, M)) returns exactly (B, M).
C1_RoundTripEveryMime ==
  cStep = "roundtrip" => cRes = [ok |-> TRUE, data |-> cBytes, mime |-> cMime]

\* C1 as amended: the round trip returns exactly (B, M) for every byte
\* sequence B and every MIME string M that holds none of ',', ';' and ':'.
C1_RoundTripSeparatorFree ==
  (cStep = "roundtrip" /\ SeparatorFree(cMime))
    => cRes = [ok |-> TRUE, data |-> cBytes, mime |-> cMime]

C1_Witness ==
  /\ cStep = "roundtrip"
  /\ SeparatorFree(cMime)
  /\ Len(cMime) = 2
  /\ Len(cBytes) = 2
  /\ cRes.ok

RECURSIVE FindSub(_, _, _)
\* the first position from i at which p occurs in s; 0 when it does not.
FindSub(s, p, i) ==
  IF i + Len(p) - 1 > Len(s) THEN 0
  ELSE IF SubSeq(s, i, i + Len(p) - 1) = p THEN i
  ELSE FindSub(s, p, i + 1)

\* RFC 4648: whole quads of alphabet characters, '=' only as the last one or
\* two characters.
ValidBase64(p) ==
  /\ Len(p) % 4 = 0
  /\ \A i \in 1..Len(p) :
       \/ p[i] \in B64Chars
       \/ /\ p[i] = "="
          /\ i >= Len(p) - 1
          /\ p[Len(p)] = "="

\* The structure data:<mime>;base64,<payload> with a MIME segment that is not
\* empty and a payload that is base64.
WellFormedDataUri(u) ==
  /\ StartsWith(u, DataColon)
  /\ LET rest == SubSeq(u, Len(DataColon) + 1, Len(u))
         at == FindSub(rest, Base64Comma, 1)
     IN /\ at > 1
        /\ ValidBase64(SubSeq(rest, at + Len(Base64Comma), Len(rest)))

\* C2: decode rejects every malformed data URI: an input that lacks the
\* data:<mime>;base64, structure, has an empty MIME segment or a payload that
\* is not base64 yields an error, never a (bytes, mimeType) result.
C2_MalformedRejected ==
  (cStep = "decoded" /\ ~WellFormedDataUri(cUri)) => ~cRes.ok

(***************************************************************************)
(* The claims about the synthesis requests.                                *)
(***************************************************************************)
\* The id is one of the built-in voices or of a voice that was added.
Registered(id) ==
  id \in Ids(initialVoices) \cup {created[i] : i \in 1..Len(created)}

OutOfDomain(input) ==
  ~InRange(input.speed, 5, 20) \/ ~InRange(input.variability, 0, 10)

WellFormed(input) == input.text # <<>> /\ ~OutOfDomain(input)

\* The call of c failed before anything was sent to the engine.
FailedBeforeEngine(c) ==
  /\ ~scall[c].fetched
  /\ ~scall[c].engine
  /\ scall[c].phase = "returned" => scall[c].result.threw

\* C7: every well-formed synthesis request whose voiceId is not a registered
\* voice fails, and no call to the engine is issued for it.
C7_UnknownVoiceNoEngineCall ==
  \A c \in Callers :
    (/\ scall[c].phase # "idle"
     /\ WellFormed(scall[c].input)
     /\ ~Registered(scall[c].input.voiceId)) => FailedBeforeEngine(c)

\* C8: every synthesis request with speed outside [0.5, 2.0] or variability
\* outside [0.0, 1.0] fails before any engine call is made: the value is not
\* forwarded.
C8_OutOfDomainNotForwarded ==
  \A c \in Callers :
    (scall[c].phase # "idle" /\ OutOfDomain(scall[c].input))
      => FailedBeforeEngine(c)

\* C9: a synthesis request with empty text fails and does not reach the
\* engine.
C9_EmptyTextNotForwarded ==
  \A c \in Callers :
    (scall[c].phase # "idle" /\ scall[c].input.text = <<>>)
      => FailedBeforeEngine(c)

\* The response carries no audio: its audioDataUri does not decode, or its
\* MIME type is not audio/..., or its payload has no bytes.
InvalidAudio(resp) ==
  LET d == decode_data_uri(resp.audioDataUri)
  IN ~d.ok \/ ~StartsWith(d.mime, AudioSlash) \/ d.data = <<>>

\* C10: synthesize never returns success with an invalid engine result: when
\* the response of the engine has a MIME type that is not an audio type or a
\* payload of zero length, the call fails.
C10_InvalidResultFails ==
  \A c \in Callers :
    (/\ scall[c].phase = "returned"
     /\ scall[c].resp.kind = "http"
     /\ scall[c].resp.status = 200
     /\ InvalidAudio(scall[c].resp)) => scall[c].result.threw


\* The attempt of c failed: fetch rejected, or the status is not a success.
AttemptFailed(c) ==
  scall[c].resp.kind = "neterr"
    \/ (scall[c].resp.kind = "http" /\ scall[c].resp.status # 200)

\* C11: each synthesize call issues at most one call to the engine: once the
\* response (or the rejection) is there, the request is not sent again, and a
\* failed attempt is surfaced to the caller as an error.
C11_NoRetry ==
  [][\A c \in Callers :
       scall[c].phase = "responded" =>
         /\ scall'[c].phase \in {"responded", "returned"}
         /\ (scall'[c].phase = "returned" /\ AttemptFailed(c))
              => scall'[c].result.threw]_vars

C11_Witness ==
  \E c \in Callers :
    /\ scall[c].phase = "returned"
    /\ scall[c].fetched
    /\ AttemptFailed(c)
    /\ scall[c].result.threw

\* C12: every call to the engine is bounded by a timeout: a request that
\* was sent comes to an end for the caller, even when the engine never
\* responds.
C12_CallCompletes ==
  \A c \in Callers :
    (scall[c].phase = "requested") ~> (scall[c].phase = "returned")

\* The engine answered the request of c with a status that is not a success.
NonSuccess(c) == scall[c].resp.kind = "http" /\ scall[c].resp.status # 200

\* C13: when the engine answers a synthesis request with a non-success
\* status, the flow throws an error that carries the status and the body of
\* the response, and the page shows that error: no audio is set and the toast
\* quotes the status and the body.
C13_FailureDetailSurfaced ==
  [][\A c \in Callers :
       /\ (scall[c].phase = "responded" /\ scall'[c].phase = "returned"
           /\ NonSuccess(c))
            => /\ scall'[c].result.threw
               /\ scall'[c].result.status = scall[c].resp.status
               /\ scall'[c].result.detail = scall[c].resp.detail
       /\ (c \in Sessions /\ scall[c].phase = "returned"
           /\ scall'[c].phase = "idle" /\ NonSuccess(c))
            => /\ toast'[c] = "error: generation"
               /\ toastDetail'[c] = [status |-> scall[c].resp.status,
                                     detail |-> scall[c].resp.detail]
               /\ genAudioDataUri'[c] = Null]_vars

C13_Witness ==
  /\ toast["s1"] = "error: generation"
  /\ toastDetail["s1"].status = 503
  /\ genAudioDataUri["s1"] = Null
  /\ scall["s1"].phase = "idle"

(***************************************************************************)
(* The claims about the trainings and the storage.                         *)
(***************************************************************************)
\* The data URI holds the content of a file that is larger than 5MB or whose
\* type is not one of the allowed types.
BadSample(uri) ==
  \E f \in Files :
    /\ readAsDataURL(f) = uri
    /\ (f.size > FiveMB \/ f.type \notin AllowedTypes)

\* C14: a training with a sample larger than 5MB, or of a type outside the
\* allow-list, fails, and nothing is persisted by it: the storage is as it
\* was before the request.
C14_BadSampleRejected ==
  [][\A c \in Callers :
       (tcall[c].phase = "requested" /\ tcall'[c].phase = "responded"
        /\ BadSample(tcall[c].audioDataUri))
         => /\ ~(tcall'[c].resp.kind = "http" /\ tcall'[c].resp.status = 200)
            /\ dirs' = dirs
            /\ files' = files]_vars

\* The reference audio of id is in the storage, with content.
Stored(id) ==
  id \in dirs /\ \E f \in files : f.id = id /\ f.data # <<>>

\* id is in the list that the item 'trainedVoices' holds.
InCache(id) == localStorage.present /\ id \in Ids(localStorage.value)

\* The ids of the trained voices that a page lists.
ListedTrained ==
  UNION {Ids(TrainedPart(voices[s])) : s \in {t \in Sessions : mounted[t]}}

\* C15: registration and storage-write are atomic to observers: in every
\* reachable state a trained id is either registered and backed by written
\* reference audio, or neither registered nor present in the storage.
C15_RegisteredIffStored ==
  \A id \in dirs \cup {f.id : f \in files} \cup ListedTrained
            \cup Ids(localStorage.value) :
    (InCache(id) /\ Stored(id))
      \/ (~InCache(id) /\ id \notin ListedTrained /\ id \notin dirs
          /\ id \notin {f.id : f \in files})

\* C16: when the training of a page ends without a new entry in its list
\* although the service had persisted the audio (the id is a duplicate, or
\* the page is gone), the failure is surfaced and the storage that was just
\* written is removed.
C16_FailedTrainingCleansUp ==
  [][\A s \in Sessions :
       (/\ tcall[s].phase = "returned" /\ tcall'[s].phase = "idle"
        /\ tcall[s].resp.kind = "http" /\ tcall[s].resp.status = 200
        /\ Ids(voices'[s]) = Ids(voices[s]))
         => /\ toast'[s] = "error: training"
            /\ tcall[s].resp.modelId \notin dirs']_vars

\* The ids of the trained voices that were registered.
CreatedIds == {created[i] : i \in 1..Len(created)}

\* C17: a trained identity whose reference audio is not in the storage is
\* unusable: a synthesis request for it fails at resolution time, and
\* tts_to_file is never called for it.
C17_MissingReferenceUnusable ==
  \A c \in Callers :
    (/\ scall[c].phase \in {"responded", "returned"}
     /\ scall[c].input.voiceId \in CreatedIds
     /\ ~Stored(scall[c].input.voiceId))
      => /\ ~scall[c].engine
         /\ scall[c].phase = "returned" => scall[c].result.threw

\* C18: after a training succeeded with id X, a synthesis request with
\* voiceId X resolves to the reference audio stored for X: whenever
\* tts_to_file is called for X, it is called with that audio as speaker_wav,
\* not with the default speaker of the engine.
C18_TrainedResolvesToReference ==
  \A c \in Callers :
    (/\ scall[c].engine
     /\ scall[c].input.voiceId \in CreatedIds
     /\ Stored(scall[c].input.voiceId))
      => scall[c].speaker # "none"

(***************************************************************************)
(* The claims about the built-in voices and the cache.                     *)
(***************************************************************************)
\* C19: the built-in voices are always present and immutable: whatever the
\* item held when the page was loaded and whatever voices are added, the list
\* of a page starts with default-male and default-female under their
\* original names, and no other entry carries one of their ids.
C19_BuiltInsImmutable ==
  \A s \in Sessions :
    mounted[s] =>
      /\ Len(voices[s]) >= Len(initialVoices)
      /\ SubSeq(voices[s], 1, Len(initialVoices)) = initialVoices
      /\ \A i \in (Len(initialVoices) + 1)..Len(voices[s]) :
           voices[s][i].id \notin Ids(initialVoices)

\* The page was told that a training gave the id of a built-in voice (the
\* success toast with nothing created and no trained voice listed).
C19_Witness ==
  /\ mounted["s1"]
  /\ toast["s1"] = "success"
  /\ created = <<>>
  /\ voices["s1"] = initialVoices

\* The ids that the item holds.
CachedIds == IF localStorage.present THEN Ids(localStorage.value) ELSE {}

\* C20: a trained identity, once in the persisted registry, is never removed
\* from it by a later load, save or registration, of this page or another.
C20_NeverDeleted == [][CachedIds \subseteq CachedIds']_vars

(***************************************************************************)
(* The claims about the training responses and the sanitized names.        *)
(***************************************************************************)
\* The trainingStatus that stands for success.
IndicatesSuccess(trainingStatus) == trainingStatus = "completed"

\* C21: in every training response, modelId is present if and only if
\* trainingStatus indicates success: in the body of every 200 response of
\* POST /api/train-voice, and in every result that trainVoiceModel returns.
C21_ModelIdIffSuccess ==
  \A c \in Callers :
    /\ (tcall[c].resp.kind = "http" /\ tcall[c].resp.status = 200)
         => (Truthy(tcall[c].resp.modelId)
               <=> IndicatesSuccess(tcall[c].resp.trainingStatus))
    /\ (tcall[c].phase = "returned" /\ ~tcall[c].result.threw)
         => (Truthy(tcall[c].result.modelId)
               <=> IndicatesSuccess(tcall[c].result.trainingStatus))

C21_Witness ==
  \E c \in Callers :
    /\ tcall[c].phase = "returned"
    /\ ~tcall[c].result.threw
    /\ Truthy(tcall[c].result.modelId)
    /\ IndicatesSuccess(tcall[c].result.trainingStatus)

\* The characters of the name that the sanitizer keeps as they are or turns
\* into '_' on purpose: alphanumerics, space, underscore, hyphen.
KeptChars == AlnumChars \cup {" ", "_", "-"}

\* The token's alphabet.
TokenChars == AlnumChars \cup {"_", "-"}

RECURSIVE KeptOf(_)
\* The kept characters of a name, in their order, the spaces as underscores.
KeptOf(name) ==
  IF Len(name) = 0 THEN <<>>
  ELSE (IF name[1] \in KeptChars
        THEN <<IF name[1] = " " THEN "_" ELSE name[1]>> ELSE <<>>)
       \o KeptOf(Tail(name))

\* C22 as stated: sanitizing a model name yields a token made only of
\* alphanumerics, underscore and hyphen, taken from the characters the name
\* keeps; when no character of the name is kept, the result is
\* "unnamed_model".
C22_TokenFromKept ==
  nStep = "sanitized" =>
    /\ \A i \in 1..Len(sane_model_name) : sane_model_name[i] \in TokenChars
    /\ sane_model_name = Unnamed \/ IsSubseq(sane_model_name, KeptOf(nName))
    /\ KeptOf(nName) = <<>> => sane_model_name = Unnamed

\* C22 as amended: the token is never empty and is made only of
\* alphanumerics, underscore and hyphen; it is "unnamed_model" when the name
\* is empty or all spaces, and otherwise the name without its leading and
\* trailing spaces, with an underscore in the place of every space and of
\* every character that is not kept.
C22_TokenReplaced ==
  nStep = "sanitized" =>
    LET core == Strip(nName) IN
      /\ sane_model_name # <<>>
      /\ \A i \in 1..Len(sane_model_name) : sane_model_name[i] \in TokenChars
      /\ IF core = <<>> THEN sane_model_name = Unnamed
         ELSE /\ Len(sane_model_name) = Len(core)
              /\ \A i \in 1..Len(core) :
                   sane_model_name[i] =
                     IF core[i] \in TokenChars THEN core[i] ELSE "_"

C22_Witness ==
  /\ nStep = "sanitized"
  /\ nName = <<" ", "!", "a">>
  /\ sane_model_name = <<"_", "a">>

(***************************************************************************)
(* The claim about the default extension.                                  *)
(***************************************************************************)
\* The data URI is the content of the sample whose type has no extension in
\* extension_map.
UnknownTypeSample(uri) == uri = readAsDataURL(FlacFile)

\* The reference audio stored for id is that sample.
HoldsUnknownTypeSample(id) ==
  [id |-> id, ext |-> "wav", data |-> FlacFile.data] \in files

\* C23: training with an audio MIME type that has no known extension does
\* not fail: the sample is stored as reference.wav, and a later synthesis
\* request for the minted id finds that stored reference (tts_to_file is
\* called with it as speaker_wav).
C23_UnknownTypeFallsBackToWav ==
  \A c \in Callers :
    /\ (/\ tcall[c].phase \in {"responded", "returned"}
        /\ tcall[c].resp.kind = "http"
        /\ UnknownTypeSample(tcall[c].audioDataUri))
         => /\ tcall[c].resp.status = 200
            /\ HoldsUnknownTypeSample(tcall[c].resp.modelId)
    /\ (scall[c].engine /\ HoldsUnknownTypeSample(scall[c].input.voiceId))
         => scall[c].speaker = "wav"

(***************************************************************************)
(* The claims about the forms of a page.                                   *)
(***************************************************************************)
\* The files that handleFileChange turns down.
Rejected(f) == f.size > FiveMB \/ f.type \notin AllowedTypes

\* C24: in the trainer form, once all pending file reads have completed,
\* audioDataUri is the content of the currently selected audioFile (null when
\* no file is selected), for every order of selecting, re-selecting and
\* clearing files and of the reads; a file rejected for size or type never
\* becomes the training sample.
C24_SampleIsSelectedFile ==
  \A s \in Sessions :
    (mounted[s] /\ reading[s] = {}) =>
      /\ audioDataUri[s] =
           IF audioFile[s] = NullFile THEN Null
           ELSE readAsDataURL(audioFile[s])
      /\ \A f \in Files : Rejected(f) => audioDataUri[s] # readAsDataURL(f)

\* The training call of page s came back with a model id and no error.
TrainedOk(s) ==
  /\ tcall[s].phase = "returned"
  /\ ~tcall[s].result.threw
  /\ Truthy(tcall[s].result.modelId)

\* C25: handleTrainModel adds a voice to the list of its page only when the
\* training call returned without error and carried a modelId; when the call
\* throws or the response has no modelId, the step that ends the call leaves
\* the voice list and the form fields (modelName, audioFile, audioDataUri)
\* unchanged.
C25_NoEntryWithoutModelId ==
  [][\A s \in Sessions :
       (mounted[s] /\ mounted'[s]) =>
         /\ voices'[s] # voices[s] => TrainedOk(s)
         /\ (/\ tcall[s].phase = "returned" /\ tcall'[s].phase = "idle"
             /\ ~TrainedOk(s))
              => /\ voices'[s] = voices[s]
                 /\ modelName'[s] = modelName[s]
                 /\ audioFile'[s] = audioFile[s]
                 /\ audioDataUri'[s] = audioDataUri[s]]_vars

\* The page was told that the answer held no model id, and its form still
\* holds the name and the sample.
C25_Witness ==
  /\ mounted["s1"]
  /\ toast["s1"] = "error: no model id"
  /\ tcall["s1"].phase = "idle"
  /\ voices["s1"] = initialVoices
  /\ modelName["s1"] = <<"v">>
  /\ audioDataUri["s1"] = readAsDataURL(WavFile)

\* C26: every generation or training request that sets isLoading to true is
\* eventually followed by isLoading being false, whether the gateway call
\* succeeds or fails, and while isLoading is true no second request is
\* started from the same component.
C26_LoadingEnds ==
  /\ \A s \in Sessions : isLoading[s] ~> ~isLoading[s]
  /\ \A s \in Sessions : genIsLoading[s] ~> ~genIsLoading[s]
  /\ [][\A s \in Sessions :
          /\ isLoading[s] =>
               ~(tcall[s].phase # "requested" /\ tcall'[s].phase = "requested")
          /\ genIsLoading[s] =>
               ~(scall[s].phase = "idle" /\ scall'[s].phase # "idle")]_vars

\* C27: the displayed audio always belongs to the most recent generation
\* request: starting a request clears audioDataUri, it is null while the
\* request is in flight, a failed request leaves it null, a successful one
\* sets it to its result, and no other step of the page changes it.
C27_AudioOfLatestRequest ==
  [][\A s \in Sessions :
       (mounted[s] /\ mounted'[s]) =>
         /\ scall[s].phase # "idle" => genAudioDataUri[s] = Null
         /\ IF scall[s].phase = "idle" /\ scall'[s].phase # "idle"
              THEN genAudioDataUri'[s] = Null
            ELSE IF scall[s].phase = "returned" /\ scall'[s].phase = "idle"
              THEN genAudioDataUri'[s] =
                     IF scall[s].result.threw THEN Null
                     ELSE scall[s].result.audioDataUri
            ELSE genAudioDataUri'[s] = genAudioDataUri[s]]_vars

\* A request was started after one that had succeeded, and the audio of the
\* earlier one is gone.
C27_Witness ==
  /\ mounted["s1"]
  /\ scall["s1"].phase = "requested"
  /\ toast["s1"] = "success: audio"
  /\ genAudioDataUri["s1"] = Null

\* C28: whenever the voice list of a page is not empty and its effects have
\* settled, selectedVoiceId is the id of a voice in the list, and a
\* generation request of the page carries a voiceId that the list holds.
C28_SelectedVoiceListed ==
  \A s \in Sessions :
    (mounted[s] /\ Len(voices[s]) > 0) =>
      /\ selectedVoiceId[s] \in Ids(voices[s])
      /\ scall[s].phase # "idle" => scall[s].input.voiceId \in Ids(voices[s])

\* A request with the voice that the page trained, sent after the list grew.
C28_Witness ==
  /\ mounted["s1"]
  /\ Len(voices["s1"]) > Len(initialVoices)
  /\ scall["s1"].phase = "requested"
  /\ scall["s1"].input.voiceId = voices["s1"][Len(voices["s1"])].id

=============================================================================
